---- MODULE Spec2Model ----
(***************************************************************************)
(* A model of two rendering components of the paper.js fork:              *)
(*   - Group (CompositeGroup): the clip-item cache and the draw pass that  *)
(*     composites clip masks in place and defers unclippable children;     *)
(*   - AreaText (BoundedTextRegion): style setters, clone, and the greedy  *)
(*     word wrap of _draw with its vertical cut-off.                       *)
(* JavaScript runs these handlers synchronously on one thread, so every    *)
(* handler is one atomic action; what a draw did in which order is kept    *)
(* in a log the action returns.                                            *)
(***************************************************************************)
EXTENDS Integers, Sequences, FiniteSets, TLC

(***************************************************************************)
(* Bounds of the model.                                                    *)
(***************************************************************************)
MaxChildren == 3
\* Depth of nested testLine calls the engine's call stack holds.
MaxStack == 3
\* AreaText objects alive at once.
MaxRegions == 2
\* Length of the contents enumerated in full.
MaxChars == 4

(***************************************************************************)
(* Values shared by the components.                                        *)
(***************************************************************************)
\* A JavaScript slot that may be undefined: <<>> when it is, <<v>> when it holds v.
Undefined == <<>>
Some(v) == <<v>>
Value(slot) == slot[1]

VARIABLES
    children,     \* Group._children: sequence of [clipMask, clippable]
    clipItems,    \* Group._clipItems: Undefined, or the indices of the clip masks
    ctxOp,        \* ctx.globalCompositeOperation of the surface
    paramOffset,  \* param.offset of the render parameters
    frame,        \* the last draw pass over the current child list, or Undefined
    clipped,      \* the last answer of isClipped() for the current child list, or Undefined
    regions,      \* the AreaText objects made so far, by identity
    payloads,     \* the TextItem objects, by identity; a region's _text names one
    shadow,       \* per region, the content last given to its text through that
                  \* region (Undefined for a region without a text)
    call,         \* the last AreaText call: its name and outcome, and for
                  \* setColorStyle and clone the receiver and the result
    fontCall,     \* the arguments of the last setFontStyle call, or Undefined
    ctx,          \* font, textAlign and origin of the surface an AreaText draws on
    painted       \* what the last AreaText _draw did, or Undefined

gvars == <<children, clipItems, ctxOp, paramOffset, frame, clipped>>
tvars == <<regions, payloads, shadow, call, fontCall, ctx, painted>>
vars == <<gvars, tvars>>

(***************************************************************************)
(* Group                                                                   *)
(***************************************************************************)

\* Group.initialize: this.compositing = 'source-in'
Compositing == "source-in"

\* The operators a surface may have active when a draw pass is entered.
SurfaceOps == {"source-over", "destination-out"}

\* Item flags of a child as the group reads them.
ChildFlags == [clipMask : BOOLEAN, clippable : BOOLEAN]

\* Stroke bounds of a group, in half units so that floor() has work to do:
\* [x2, y2] is twice the top-left corner, width and height are plain.
BoundsSet ==
    { [x2 |-> x, y2 |-> y, width |-> w, height |-> h] :
        x \in {-3, 4}, y \in {1}, w \in {0, 2}, h \in {0, 2} }

EmptyBounds == [x2 |-> 0, y2 |-> 0, width |-> 0, height |-> 0]

\* Point.floor() on a coordinate held in half units.
Floor2(v2) == v2 \div 2

\* A variant of _getClipItems whose loop stops one child short.
GetClipItemsShort(ch) ==
    SelectSeq([i \in 1..Len(ch) |-> i], LAMBDA i : i < Len(ch) /\ ch[i].clipMask)

\* Group._getClipItems: the children whose _clipMask is set, in list order.
GetClipItems(ch) ==
    SelectSeq([i \in 1..Len(ch) |-> i], LAMBDA i : ch[i].clipMask)

\* Group._changed: the cached clip items are deleted on HIERARCHY or CLIPPING.
Changed(cache, flags) ==
    IF flags \cap {"HIERARCHY", "CLIPPING"} # {} THEN Undefined ELSE cache

\* One entry of the draw log: child i was drawn while operator op was active.
Drawn(i, op, pass) == [child |-> i, op |-> op, pass |-> pass]

RECURSIVE MainPass(_, _, _, _, _, _)
\* A variant of the main pass that draws an unclippable child in place.
MainPassNoDefer(ch, i, hasClipItems, op, log, unclippable) ==
    IF i > Len(ch) THEN [log |-> log, unclippable |-> unclippable]
    ELSE IF ch[i].clipMask
         THEN MainPass(ch, i + 1, hasClipItems, op,
                       Append(log, Drawn(i, Compositing, "main")), unclippable)
         ELSE MainPass(ch, i + 1, hasClipItems, op,
                       Append(log, Drawn(i, op, "main")), unclippable)

\* A variant of the main pass that leaves the group's operator on the
\* surface after a clip mask was drawn.
MainPassNoRestore(ch, i, hasClipItems, op, log, unclippable) ==
    IF i > Len(ch) THEN [log |-> log, unclippable |-> unclippable]
    ELSE IF ch[i].clipMask
         THEN MainPass(ch, i + 1, hasClipItems, Compositing,
                       Append(log, Drawn(i, Compositing, "main")), unclippable)
         ELSE IF hasClipItems /\ ~ch[i].clippable
              THEN MainPass(ch, i + 1, hasClipItems, op, log, Append(unclippable, i))
              ELSE MainPass(ch, i + 1, hasClipItems, op,
                            Append(log, Drawn(i, op, "main")), unclippable)

\* A variant of the main pass that draws an unclippable child of a clipped
\* group at once and puts it aside as well.
MainPassDrawsAndDefers(ch, i, hasClipItems, op, log, unclippable) ==
    IF i > Len(ch) THEN [log |-> log, unclippable |-> unclippable]
    ELSE IF ch[i].clipMask
         THEN MainPass(ch, i + 1, hasClipItems, op,
                       Append(log, Drawn(i, Compositing, "main")), unclippable)
         ELSE IF hasClipItems /\ ~ch[i].clippable
              THEN MainPass(ch, i + 1, hasClipItems, op,
                            Append(log, Drawn(i, op, "main")), Append(unclippable, i))
              ELSE MainPass(ch, i + 1, hasClipItems, op,
                            Append(log, Drawn(i, op, "main")), unclippable)

\* Group._draw, the loop over this._children: a clip mask is drawn with the
\* group's operator and the previous operator is put back; an unclippable
\* child of a clipped group is put aside; any other child is drawn at once.
MainPass(ch, i, hasClipItems, op, log, unclippable) ==
    IF i > Len(ch) THEN [log |-> log, unclippable |-> unclippable]
    ELSE IF ch[i].clipMask
         THEN MainPass(ch, i + 1, hasClipItems, op,
                       Append(log, Drawn(i, Compositing, "main")), unclippable)
         ELSE IF hasClipItems /\ ~ch[i].clippable
              THEN MainPass(ch, i + 1, hasClipItems, op, log, Append(unclippable, i))
              ELSE MainPass(ch, i + 1, hasClipItems, op,
                            Append(log, Drawn(i, op, "main")), unclippable)

\* Group._draw, the loop over unclippable: for-in visits the indices in order.
DeferredPass(unclippable, op) ==
    [k \in 1..Len(unclippable) |-> Drawn(unclippable[k], op, "deferred")]

\* A variant of _draw without the test of the stroke bounds.
GroupDrawNeverTestsBounds(ch, bounds, op, offset) ==
    LET items == GetClipItems(ch)
        hasClipItems == Len(items) > 0
        main == MainPass(ch, 1, hasClipItems, op, <<>>, <<>>)
    IN  [aborted |-> FALSE,
         log |-> main.log \o DeferredPass(main.unclippable, op),
         offset |-> IF hasClipItems
                    THEN Some(<<Floor2(bounds.x2), Floor2(bounds.y2)>>)
                    ELSE offset,
         op |-> op]

\* A variant of _draw that writes param.offset before it looks at the
\* clip items and the size of the bounds.
GroupDrawAlwaysWritesOffset(ch, bounds, op, offset) ==
    LET items == GetClipItems(ch)
        hasClipItems == Len(items) > 0
        written == Some(<<Floor2(bounds.x2), Floor2(bounds.y2)>>)
    IN  IF hasClipItems /\ (bounds.width = 0 \/ bounds.height = 0)
        THEN [aborted |-> TRUE, log |-> <<>>, offset |-> written, op |-> op]
        ELSE LET main == MainPass(ch, 1, hasClipItems, op, <<>>, <<>>)
             IN  [aborted |-> FALSE,
                  log |-> main.log \o DeferredPass(main.unclippable, op),
                  offset |-> written,
                  op |-> op]

\* Group._draw as a whole: what it drew, what it left in param.offset and
\* in ctx.globalCompositeOperation.
GroupDraw(ch, bounds, op, offset) ==
    LET items == GetClipItems(ch)
        hasClipItems == Len(items) > 0
    IN  IF hasClipItems /\ (bounds.width = 0 \/ bounds.height = 0)
        THEN [aborted |-> TRUE, log |-> <<>>, offset |-> offset, op |-> op]
        ELSE LET main == MainPass(ch, 1, hasClipItems, op, <<>>, <<>>)
             IN  [aborted |-> FALSE,
                  log |-> main.log \o DeferredPass(main.unclippable, op),
                  offset |-> IF hasClipItems
                             THEN Some(<<Floor2(bounds.x2), Floor2(bounds.y2)>>)
                             ELSE offset,
                  op |-> op]

GroupInit ==
    /\ children = <<>>
    /\ clipItems = Undefined
    /\ ctxOp \in SurfaceOps
    /\ paramOffset = Undefined
    /\ frame = Undefined
    /\ clipped = Undefined

\* Item.addChild: the child keeps the flags it had; HIERARCHY is notified.
AddChild ==
    /\ Len(children) < MaxChildren
    /\ \E c \in ChildFlags : children' = Append(children, c)
    /\ clipItems' = Changed(clipItems, {"HIERARCHY"})
    /\ frame' = Undefined
    /\ clipped' = Undefined
    /\ UNCHANGED <<ctxOp, paramOffset, tvars>>

\* Item.remove on a child: HIERARCHY is notified.
RemoveChild ==
    /\ \E i \in 1..Len(children) :
         children' = [k \in 1..(Len(children) - 1) |->
                        IF k < i THEN children[k] ELSE children[k + 1]]
    /\ clipItems' = Changed(clipItems, {"HIERARCHY"})
    /\ frame' = Undefined
    /\ clipped' = Undefined
    /\ UNCHANGED <<ctxOp, paramOffset, tvars>>

\* Item.setClipMask on a child: a change of the flag notifies CLIPPING.
SetClipMask ==
    /\ \E i \in 1..Len(children), b \in BOOLEAN :
         /\ children[i].clipMask # b
         /\ children' = [children EXCEPT ![i].clipMask = b]
    /\ clipItems' = Changed(clipItems, {"CLIPPING"})
    /\ frame' = Undefined
    /\ clipped' = Undefined
    /\ UNCHANGED <<ctxOp, paramOffset, tvars>>

\* Group.setClipped: the first child, if any, gets setClipMask(clipped).
SetClipped ==
    /\ Len(children) > 0
    /\ \E b \in BOOLEAN :
         /\ children' = [children EXCEPT ![1].clipMask = b]
         /\ clipItems' = IF children[1].clipMask # b
                         THEN Changed(clipItems, {"CLIPPING"})
                         ELSE clipItems
    /\ frame' = Undefined
    /\ clipped' = Undefined
    /\ UNCHANGED <<ctxOp, paramOffset, tvars>>

\* The child's clippable flag is switched; the group's cache is not told.
SetClippable ==
    /\ \E i \in 1..Len(children) :
         children' = [children EXCEPT ![i].clippable = ~children[i].clippable]
    /\ clipItems' = Changed(clipItems, {"ATTRIBUTE"})
    /\ frame' = Undefined
    /\ clipped' = Undefined
    /\ UNCHANGED <<ctxOp, paramOffset, tvars>>

\* Group.isClipped
IsClipped ==
    /\ clipItems' = Some(GetClipItems(children))
    /\ clipped' = Some(Len(GetClipItems(children)) > 0)
    /\ UNCHANGED <<children, ctxOp, paramOffset, frame, tvars>>

\* Group._draw, with the stroke bounds the geometry gives this pass.  A group
\* without children has empty bounds.
Draw ==
    \E b \in BoundsSet \cup {EmptyBounds} :
        /\ (children = <<>>) <=> (b = EmptyBounds)
        /\ LET r == GroupDraw(children, b, ctxOp, paramOffset)
           IN  /\ clipItems' = Some(GetClipItems(children))
               /\ paramOffset' = r.offset
               /\ ctxOp' = r.op
               /\ frame' = Some([bounds |-> b, opIn |-> ctxOp, offsetIn |-> paramOffset,
                                 aborted |-> r.aborted, log |-> r.log])
        /\ UNCHANGED <<children, clipped, tvars>>

GroupNext ==
    \/ AddChild
    \/ RemoveChild
    \/ SetClipMask
    \/ SetClipped
    \/ SetClippable
    \/ IsClipped
    \/ Draw



(***************************************************************************)
(* Text: strings are sequences of one-character strings                    *)
(***************************************************************************)

\* The characters of the modelled texts, and the line break of a content.
Alphabet == {"a", "M", " "}
NL == "\n"

\* ctx.measureText(s).width for a font without kerning: the sum of the
\* advance widths of the characters ("M" is a wide glyph).
CharWidth(c) == IF c = "M" THEN 2 ELSE 1

RECURSIVE measureText(_)
measureText(s) == IF s = <<>> THEN 0 ELSE CharWidth(Head(s)) + measureText(Tail(s))

\* String.prototype.split(sep) for a one-character separator: the pieces
\* between the separators, empty pieces included; "" splits into [""].
RECURSIVE SplitFrom(_, _, _, _)
SplitFrom(s, sep, k, cur) ==
    IF k > Len(s) THEN <<cur>>
    ELSE IF s[k] = sep
         THEN <<cur>> \o SplitFrom(s, sep, k + 1, <<>>)
         ELSE SplitFrom(s, sep, k + 1, Append(cur, s[k]))

Split(s, sep) == SplitFrom(s, sep, 1, <<>>)

\* Array.prototype.join(sep), sep a string.
RECURSIVE Join(_, _)
Join(parts, sep) ==
    IF parts = <<>> THEN <<>>
    ELSE IF Len(parts) = 1 THEN parts[1]
         ELSE parts[1] \o sep \o Join(Tail(parts), sep)

\* Indexing a string as testLine does when it is handed a single word:
\* word[n] is the n-th character, itself a string.
Chars(word) == [k \in 1..Len(word) |-> <<word[k]>>]

(***************************************************************************)
(* AreaText._draw                                                          *)
(***************************************************************************)

\* What a draw has done so far: the vertical cursor (currentHeight), how far
\* writeLine has moved the origin of the surface down (dy), the calls of
\* writeLine in order, the logical line being wrapped, and whether the call
\* stack overflowed.
DrawStart == [cursor |-> 0, dy |-> 0, log |-> <<>>, lineNo |-> 0, status |-> "ok"]

\* writeLine that still advances the cursor when it drops a line.
writeLineAdvancesOnDrop(env, st, text) ==
    IF st.cursor + env.leading > env.maxHeight
    THEN [st EXCEPT !.cursor = st.cursor + env.leading,
                    !.log = Append(st.log,
                        [text |-> text, painted |-> FALSE, fill |-> FALSE,
                         stroke |-> FALSE, cursor |-> st.cursor, lineNo |-> st.lineNo])]
    ELSE [st EXCEPT !.cursor = st.cursor + env.leading,
                    !.dy = st.dy + env.leading,
                    !.log = Append(st.log,
                        [text |-> text, painted |-> TRUE, fill |-> env.fill,
                         stroke |-> env.stroke, cursor |-> st.cursor, lineNo |-> st.lineNo])]

\* writeLine that takes a line without fill and stroke color as not written:
\* neither the cursor nor the origin moves.
writeLineSkipsUnstyled(env, st, text) ==
    IF st.cursor + env.leading > env.maxHeight
    THEN [st EXCEPT !.log = Append(st.log,
                        [text |-> text, painted |-> FALSE, fill |-> FALSE,
                         stroke |-> FALSE, cursor |-> st.cursor, lineNo |-> st.lineNo])]
    ELSE [st EXCEPT !.cursor = IF env.fill \/ env.stroke THEN st.cursor + env.leading
                               ELSE st.cursor,
                    !.dy = IF env.fill \/ env.stroke THEN st.dy + env.leading ELSE st.dy,
                    !.log = Append(st.log,
                        [text |-> text, painted |-> TRUE, fill |-> env.fill,
                         stroke |-> env.stroke, cursor |-> st.cursor, lineNo |-> st.lineNo])]

\* writeLine: a line that would end below the box is dropped and the cursor
\* stays; any other line is filled and stroked as the style says and the
\* cursor (and the origin of the surface) moves down by the leading.
writeLine(env, st, text) ==
    IF st.cursor + env.leading > env.maxHeight
    THEN [st EXCEPT !.log = Append(st.log,
                        [text |-> text, painted |-> FALSE, fill |-> FALSE,
                         stroke |-> FALSE, cursor |-> st.cursor, lineNo |-> st.lineNo])]
    ELSE [st EXCEPT !.cursor = st.cursor + env.leading,
                    !.dy = st.dy + env.leading,
                    !.log = Append(st.log,
                        [text |-> text, painted |-> TRUE, fill |-> env.fill,
                         stroke |-> env.stroke, cursor |-> st.cursor, lineNo |-> st.lineNo])]

RECURSIVE testLine(_, _, _, _, _)
RECURSIVE testLoop(_, _, _, _, _, _, _)

\* The loop of testLine without the n-- that takes the popped word up again.
testLoopSkipsWord(env, st, words, sep, n, line, depth) ==
    IF st.status # "ok" \/ n > Len(words) THEN [line |-> line, st |-> st]
    ELSE LET pushed == Append(line, words[n])
         IN  IF measureText(Join(pushed, sep)) > env.maxWidth
             THEN IF Len(line) > 0
                  THEN testLoop(env, writeLine(env, st, Join(line, sep)),
                                words, sep, n + 1, <<>>, depth)
                  ELSE LET inner == testLine(env, st, Chars(words[n]), <<>>, depth + 1)
                       IN  IF inner.st.status # "ok"
                           THEN [line |-> <<>>, st |-> inner.st]
                           ELSE testLoop(env, writeLine(env, inner.st, Join(inner.line, <<>>)),
                                         words, sep, n + 1, <<>>, depth)
             ELSE testLoop(env, st, words, sep, n + 1, pushed, depth)

\* The loop of testLine writing the line with the word that made it too
\* wide still on it.
testLoopWritesOverfull(env, st, words, sep, n, line, depth) ==
    IF st.status # "ok" \/ n > Len(words) THEN [line |-> line, st |-> st]
    ELSE LET pushed == Append(line, words[n])
         IN  IF measureText(Join(pushed, sep)) > env.maxWidth
             THEN IF Len(line) > 0
                  THEN testLoop(env, writeLine(env, st, Join(pushed, sep)),
                                words, sep, n + 1, <<>>, depth)
                  ELSE LET inner == testLine(env, st, Chars(words[n]), <<>>, depth + 1)
                       IN  IF inner.st.status # "ok"
                           THEN [line |-> <<>>, st |-> inner.st]
                           ELSE testLoop(env, writeLine(env, inner.st, Join(inner.line, <<>>)),
                                         words, sep, n + 1, <<>>, depth)
             ELSE testLoop(env, st, words, sep, n + 1, pushed, depth)

\* The for loop of testLine from index n on, with the words gathered in line.
\* A word that makes the line too wide is popped; a non-empty rest is written
\* and the word is taken up again; a word too wide on its own is wrapped by
\* its characters and its last fragment is written.
testLoop(env, st, words, sep, n, line, depth) ==
    IF st.status # "ok" \/ n > Len(words) THEN [line |-> line, st |-> st]
    ELSE LET pushed == Append(line, words[n])
         IN  IF measureText(Join(pushed, sep)) > env.maxWidth
             THEN IF Len(line) > 0
                  THEN testLoop(env, writeLine(env, st, Join(line, sep)),
                                words, sep, n, <<>>, depth)
                  ELSE LET inner == testLine(env, st, Chars(words[n]), <<>>, depth + 1)
                       IN  IF inner.st.status # "ok"
                           THEN [line |-> <<>>, st |-> inner.st]
                           ELSE testLoop(env, writeLine(env, inner.st, Join(inner.line, <<>>)),
                                         words, sep, n + 1, <<>>, depth)
             ELSE testLoop(env, st, words, sep, n + 1, pushed, depth)

\* testLine(words, separator): a call deeper than the engine's stack allows
\* throws RangeError, which nothing in _draw catches.
testLine(env, st, words, sep, depth) ==
    IF depth > MaxStack
    THEN [line |-> <<>>, st |-> [st EXCEPT !.status = "RangeError"]]
    ELSE testLoop(env, st, words, sep, 1, <<>>, depth)

\* The loop of _draw over the logical lines from line i on.
RECURSIVE drawLines(_, _, _, _)
drawLines(env, st, lines, i) ==
    IF st.status # "ok" \/ i > Len(lines) THEN st
    ELSE LET words == Split(lines[i], " ")
             r == testLine(env, [st EXCEPT !.lineNo = i], words, <<" ">>, 1)
         IN  IF r.st.status # "ok" THEN r.st
             ELSE IF Len(r.line) > 0
                  THEN drawLines(env, writeLine(env, r.st, Join(r.line, <<" ">>)), lines, i + 1)
                  ELSE drawLines(env, r.st, lines, i + 1)


(***************************************************************************)
(* AreaText: objects, style setters, construction and clone                *)
(***************************************************************************)

\* fontSize * 1.2, for the sizes of the model (multiples of 5, where the
\* product is a whole number).
Times12(n) == (n * 12) \div 10

\* The style a fresh item starts with (Style defaults of the library).
DefaultStyle ==
    [fillColor |-> Undefined, strokeColor |-> Undefined,
     fontSize |-> [n |-> 10, unit |-> ""], leading |-> Undefined,
     font |-> Some(<<"sans-serif">>)]

\* Style.getLeading: an unset leading reads as fontSize * 1.2.
getLeading(style) ==
    IF style.leading = Undefined THEN Times12(style.fontSize.n) ELSE Value(style.leading)

\* A TextItem slot that holds no object.
FreePayload == [live |-> FALSE, content |-> <<>>, style |-> DefaultStyle]
PayloadIds == 1..(MaxRegions + 1)

\* The path every region of the model is built on.
PathBounds == [x |-> 3, y |-> 4, width |-> 3, height |-> 2]

\* The two definitions of AreaText in the repository.
ImplA == "AreaText.js"
ImplP == "part_000"

\* new TextItem(point): an object with empty content and the default style.
NewTextItem(h) ==
    LET pid == CHOOSE q \in PayloadIds :
                  /\ ~h.payloads[q].live
                  /\ \A q2 \in PayloadIds : ~h.payloads[q2].live => q <= q2
    IN  [h |-> [h EXCEPT !.payloads[pid] =
                    [live |-> TRUE, content |-> <<>>, style |-> DefaultStyle]],
         pid |-> pid]

\* TextItem.clone: a new object with the same content and style.
CloneTextItem(h, src) ==
    LET n == NewTextItem(h)
    IN  [h |-> [n.h EXCEPT !.payloads[n.pid].content = h.payloads[src].content,
                           !.payloads[n.pid].style = h.payloads[src].style],
         pid |-> n.pid]

\* Objects no region refers to are collected, and the others are renamed
\* after the first region that refers to them: an identity has no other
\* meaning than which references are the same object.
Collect(h) ==
    LET n == Len(h.regions)
        Owner(p) == CHOOSE r \in 1..n :
                       /\ h.regions[r].text = Some(p)
                       /\ \A r2 \in 1..n : h.regions[r2].text = Some(p) => r <= r2
        Owns(r) == /\ r \in 1..n
                   /\ h.regions[r].text # Undefined
                   /\ Owner(Value(h.regions[r].text)) = r
    IN  [regions |-> [r \in 1..n |->
                        IF h.regions[r].text = Undefined THEN h.regions[r]
                        ELSE [h.regions[r] EXCEPT
                                !.text = Some(Owner(Value(h.regions[r].text)))]],
         payloads |-> [q \in PayloadIds |->
                        IF Owns(q) THEN h.payloads[Value(h.regions[q].text)]
                        ELSE FreePayload]]

Truthy(slot) == slot # Undefined /\ Value(slot) # <<>>
TruthyNumber(slot) == slot # Undefined /\ Value(slot) # 0

\* AreaText.js setColorStyle(color, strokeColor)
setColorStyle(h, r, color, strokeColor) ==
    [h EXCEPT !.regions[r].style.fillColor = color,
              !.regions[r].style.strokeColor = strokeColor,
              !.regions[r].cssFillColor = color,
              !.regions[r].cssStrokeColor = color]

\* part_000 setColorStyle(color, strokeColor); args is Undefined for a call
\* without arguments, which takes both colors from the text.
Part0_setColorStyle(h, r, args) ==
    LET pid == Value(h.regions[r].text)
        color == IF args = Undefined THEN h.payloads[pid].style.fillColor
                 ELSE Value(args).color
        strokeColor == IF args = Undefined THEN h.payloads[pid].style.strokeColor
                       ELSE Value(args).strokeColor
    IN  [h EXCEPT !.payloads[pid].style.fillColor = color,
                  !.payloads[pid].style.strokeColor = strokeColor,
                  !.regions[r].cssFillColor = color,
                  !.regions[r].cssStrokeColor = color]

\* AreaText.js setFontStyle(fontSize, leading, fontFamily)
setFontStyle(h, r, fontSize, leading, fontFamily) ==
    LET lead == IF TruthyNumber(leading) THEN Value(leading) ELSE Times12(fontSize)
    IN  [h EXCEPT !.regions[r].style.fontSize = [n |-> fontSize, unit |-> "px"],
                  !.regions[r].style.leading = Some(lead),
                  !.regions[r].style.font =
                      IF Truthy(fontFamily) THEN fontFamily ELSE @]

\* part_000 setFontStyle(fontSize, leading, fontFamily); args is Undefined
\* for a call without arguments, which re-reads the three from the text.
Part0_setFontStyle(h, r, args) ==
    LET pid == Value(h.regions[r].text)
        old == h.payloads[pid].style
        fontSize == IF args = Undefined THEN old.fontSize.n ELSE Value(args).fontSize
        leading == IF args = Undefined THEN Some(getLeading(old))
                   ELSE IF TruthyNumber(Value(args).leading) THEN Value(args).leading
                        ELSE Some(Times12(fontSize))
        fontFamily == IF args = Undefined THEN old.font ELSE Value(args).fontFamily
    IN  [h EXCEPT !.payloads[pid].style.fontSize = [n |-> fontSize, unit |-> "px"],
                  !.payloads[pid].style.leading = leading,
                  !.payloads[pid].style.font =
                      IF Truthy(fontFamily) THEN fontFamily ELSE @]

\* AreaText.js setText(text): the given object, or a new empty one.
setText(h, r, text) ==
    IF text # Undefined
    THEN [h EXCEPT !.regions[r].text = text]
    ELSE LET n == NewTextItem(h)
         IN  [n.h EXCEPT !.regions[r].text = Some(n.pid)]

\* part_000 setText(text): as above, then the styles are re-read from the text.
Part0_setText(h, r, text) ==
    Part0_setFontStyle(Part0_setColorStyle(setText(h, r, text), r, Undefined), r, Undefined)

\* A region as Path's constructor leaves it, before AreaText's own part.
BareRegion(impl) ==
    [impl |-> impl, text |-> Undefined, bounds |-> PathBounds, style |-> DefaultStyle,
     cssFillColor |-> Undefined, cssStrokeColor |-> Undefined]

\* AreaText.js initialize(path, createText).  form is "segments" or "object";
\* an object may bring a text (desc.text, an object of the heap) and colors.
initialize(h, form, createText, desc) ==
    LET r == Len(h.regions) + 1
        h0 == [h EXCEPT !.regions = Append(h.regions, BareRegion(ImplA))]
    IN  IF form = "object"
        THEN LET h1 == IF desc.text # Undefined THEN setText(h0, r, desc.text)
                       ELSE IF createText THEN setText(h0, r, Undefined)
                            ELSE h0
                 h2 == [h1 EXCEPT !.regions[r].style.fillColor = desc.fillColor,
                                  !.regions[r].style.strokeColor = desc.strokeColor]
                 h3 == setColorStyle(h2, r, h2.regions[r].style.fillColor,
                                     h2.regions[r].style.strokeColor)
             IN  setFontStyle(h3, r, h3.regions[r].style.fontSize.n,
                              h3.regions[r].style.leading, h3.regions[r].style.font)
        ELSE IF createText THEN setText(h0, r, Undefined) ELSE h0

\* part_000 initialize(path): the region always ends with a text.
Part0_initialize(h, form, desc) ==
    LET r == Len(h.regions) + 1
        h0 == [h EXCEPT !.regions = Append(h.regions, BareRegion(ImplP))]
    IN  IF form = "object"
        THEN LET hs == [h0 EXCEPT !.regions[r].style.fillColor = desc.fillColor,
                                  !.regions[r].style.strokeColor = desc.strokeColor]
                 h1 == IF desc.text # Undefined THEN Part0_setText(hs, r, desc.text)
                       ELSE hs
                 h2 == Part0_setText(h1, r, h1.regions[r].text)
             IN  Part0_setFontStyle(Part0_setColorStyle(h2, r, Undefined), r, Undefined)
        ELSE Part0_setText(h0, r, Undefined)

\* The descriptor of a call that passes no object.
NoDesc == [text |-> Undefined, fillColor |-> Undefined, strokeColor |-> Undefined]

\* The object the constructor call inside clone() makes, for either definition.
Construct(h, impl, form, createText, desc) ==
    IF impl = ImplA THEN initialize(h, form, createText, desc)
    ELSE Part0_initialize(h, form, desc)

SetTextOf(h, r, text) ==
    IF h.regions[r].impl = ImplA THEN setText(h, r, text) ELSE Part0_setText(h, r, text)

\* clone() (the same text in both files): a new AreaText on the segments,
\* given the style by _clone, then a clone of the text and the cached colors.
\* Reading this.text.clone() throws when the original has no text; the new
\* AreaText has been made and styled by then and stays, without a text.
clone(h, r) ==
    LET c == Len(h.regions) + 1
        h0 == Construct(h, h.regions[r].impl, "segments", FALSE, NoDesc)
        h1 == [h0 EXCEPT !.regions[c].style = h.regions[r].style,
                         !.regions[c].bounds = h.regions[r].bounds]
        t == CloneTextItem(h1, Value(h.regions[r].text))
        h2 == SetTextOf(t.h, c, Some(t.pid))
    IN  [status |-> IF h.regions[r].text = Undefined THEN "TypeError" ELSE "ok",
         h |-> IF h.regions[r].text = Undefined THEN h1
               ELSE [h2 EXCEPT !.regions[c].cssFillColor = h.regions[r].cssFillColor,
                               !.regions[c].cssStrokeColor = h.regions[r].cssStrokeColor]]


\* The style _draw reads: this._style in AreaText.js, this.text._style in part_000.
StyleOf(h, r) ==
    IF h.regions[r].impl = ImplA THEN h.regions[r].style
    ELSE h.payloads[Value(h.regions[r].text)].style

\* TextItem._lines: the content split at its line breaks.
Lines(content) == Split(content, NL)

\* A variant of _draw that sets font, alignment and origin of the surface
\* before it looks at the size of the box.
AreaTextDrawSetsUpFirst(h, r, c) ==
    LET R == h.regions[r]
    IN  IF R.text = Undefined \/ h.payloads[Value(R.text)].content = <<>>
        THEN [status |-> "noop", log |-> <<>>, cursor |-> 0, ctx |-> c]
        ELSE LET style == StyleOf(h, r)
                 env == [leading |-> getLeading(style),
                         maxWidth |-> R.bounds.width,
                         maxHeight |-> R.bounds.height,
                         fill |-> style.fillColor # Undefined,
                         stroke |-> style.strokeColor # Undefined]
                 st == IF env.maxWidth = 0 \/ env.maxHeight = 0 THEN DrawStart
                       ELSE drawLines(env, DrawStart,
                                      Lines(h.payloads[Value(R.text)].content), 1)
             IN  [status |-> IF env.maxWidth = 0 \/ env.maxHeight = 0 THEN "noop"
                             ELSE IF st.status = "ok" THEN "done" ELSE st.status,
                  log |-> st.log,
                  cursor |-> st.cursor,
                  ctx |-> [font |-> <<style.fontSize, style.font>>,
                           textAlign |-> "left",
                           x |-> c.x + R.bounds.x + 1,
                           y |-> c.y + R.bounds.y + style.fontSize.n - 1 + st.dy]]

\* AreaText._draw(ctx): nothing happens without a text, with an empty
\* content or with an empty box; else font, alignment and origin of the
\* surface are set and the lines are wrapped and written.
AreaTextDraw(h, r, c) ==
    LET R == h.regions[r]
    IN  IF R.text = Undefined \/ h.payloads[Value(R.text)].content = <<>>
        THEN [status |-> "noop", log |-> <<>>, cursor |-> 0, ctx |-> c]
        ELSE LET style == StyleOf(h, r)
                 env == [leading |-> getLeading(style),
                         maxWidth |-> R.bounds.width,
                         maxHeight |-> R.bounds.height,
                         fill |-> style.fillColor # Undefined,
                         stroke |-> style.strokeColor # Undefined]
             IN  IF env.maxWidth = 0 \/ env.maxHeight = 0
                 THEN [status |-> "noop", log |-> <<>>, cursor |-> 0, ctx |-> c]
                 ELSE LET st == drawLines(env, DrawStart,
                                          Lines(h.payloads[Value(R.text)].content), 1)
                      IN  [status |-> IF st.status = "ok" THEN "done" ELSE st.status,
                           log |-> st.log,
                           cursor |-> st.cursor,
                           ctx |-> [font |-> <<style.fontSize, style.font>>,
                                    textAlign |-> "left",
                                    x |-> c.x + R.bounds.x + 1,
                                    y |-> c.y + R.bounds.y + style.fontSize.n - 1
                                          + st.dy]]

(***************************************************************************)
(* Actions on AreaText                                                     *)
(***************************************************************************)

Heap == [regions |-> regions, payloads |-> payloads]

FillColors == {Undefined, Some("red")}
StrokeColors == {Undefined, Some("blue")}
Contents == {<<>>, <<"a">>}
FontSizes == {5, 10}
LeadingArgs == {Undefined, Some(0), Some(3), Some(7)}
FamilyArgs == {Undefined, Some(<<>>), Some(<<"Arial">>), Some(<<"Courier">>)}

CtxInit == [font |-> <<[n |-> 10, unit |-> "px"], Some(<<"sans-serif">>)>>,
            textAlign |-> "start", x |-> 0, y |-> 0]
NoCall == [op |-> "none", r |-> 0, result |-> 0, status |-> "ok"]

GroupIdle ==
    /\ children = <<>>
    /\ clipItems = Undefined
    /\ ctxOp = "source-over"
    /\ paramOffset = Undefined
    /\ frame = Undefined
    /\ clipped = Undefined

TextIdle ==
    /\ regions = <<>>
    /\ payloads = [q \in PayloadIds |-> FreePayload]
    /\ shadow = <<>>
    /\ call = NoCall
    /\ fontCall = Undefined
    /\ ctx = CtxInit
    /\ painted = Undefined

\* The content a region's text holds, or Undefined without a text.
ContentOf(h, r) ==
    IF h.regions[r].text = Undefined THEN Undefined
    ELSE Some(h.payloads[Value(h.regions[r].text)].content)

Install(h) ==
    /\ regions' = Collect(h).regions
    /\ payloads' = Collect(h).payloads

\* new AreaText(...): either definition, either form of the argument; an
\* object may bring colors and a text item with some content.
NewRegion ==
    /\ Len(regions) < MaxRegions
    /\ \E impl \in {ImplA, ImplP}, form \in {"segments", "object"}, createText \in BOOLEAN,
          withText \in BOOLEAN, fill \in FillColors, stroke \in StrokeColors :
         /\ form = "segments" => (~withText /\ fill = Undefined /\ stroke = Undefined)
         /\ (fill = Undefined) <=> (stroke = Undefined)
         /\ impl = ImplP => ~createText
         /\ LET t == NewTextItem(Heap)
                ht == [t.h EXCEPT !.payloads[t.pid].content = <<"a">>]
                h == IF withText
                     THEN Construct(ht, impl, form, createText,
                                    [text |-> Some(t.pid), fillColor |-> fill,
                                     strokeColor |-> stroke])
                     ELSE Construct(Heap, impl, form, createText,
                                    [text |-> Undefined, fillColor |-> fill,
                                     strokeColor |-> stroke])
            IN  /\ Install(h)
                /\ shadow' = Append(shadow, ContentOf(h, Len(h.regions)))
                /\ call' = [op |-> "new", r |-> 0, result |-> 0, status |-> "ok"]
    /\ UNCHANGED <<fontCall, ctx, painted, gvars>>

\* region.setColorStyle(color, strokeColor)
SetColorStyle ==
    /\ \E r \in 1..Len(regions), color \in FillColors, strokeColor \in StrokeColors :
         /\ Install(IF regions[r].impl = ImplA
                    THEN setColorStyle(Heap, r, color, strokeColor)
                    ELSE Part0_setColorStyle(Heap, r,
                            Some([color |-> color, strokeColor |-> strokeColor])))
         /\ call' = [op |-> "setColorStyle", r |-> r, result |-> 0, status |-> "ok"]
    /\ UNCHANGED <<shadow, fontCall, ctx, painted, gvars>>

\* region.setColorStyle() of part_000, without arguments
SetColorStyleNoArgs ==
    /\ \E r \in 1..Len(regions) :
         /\ regions[r].impl = ImplP
         /\ Install(Part0_setColorStyle(Heap, r, Undefined))
         /\ call' = [op |-> "setColorStyle", r |-> r, result |-> 0, status |-> "ok"]
    /\ UNCHANGED <<shadow, fontCall, ctx, painted, gvars>>

\* region.setText(): the text is replaced by a new empty one.
SetText ==
    /\ \E r \in 1..Len(regions) :
         /\ Install(SetTextOf(Heap, r, Undefined))
         /\ shadow' = [shadow EXCEPT ![r] = Some(<<>>)]
         /\ call' = [op |-> "setText", r |-> 0, result |-> 0, status |-> "ok"]
    /\ UNCHANGED <<fontCall, ctx, painted, gvars>>

\* region.text.content = ...: the text of one region is given a content.
SetContent ==
    /\ \E r \in 1..Len(regions), content \in Contents :
         /\ regions[r].text # Undefined
         /\ payloads' = [payloads EXCEPT ![Value(regions[r].text)].content = content]
         /\ shadow' = [shadow EXCEPT ![r] = Some(content)]
         /\ call' = [op |-> "setContent", r |-> 0, result |-> 0, status |-> "ok"]
    /\ UNCHANGED <<regions, fontCall, ctx, painted, gvars>>

\* region.clone()
Clone ==
    /\ Len(regions) < MaxRegions
    /\ \E r \in 1..Len(regions) :
         LET res == clone(Heap, r)
         IN  /\ Install(res.h)
             /\ shadow' = Append(shadow, IF res.status = "ok" THEN shadow[r] ELSE Undefined)
             /\ call' = [op |-> "clone", r |-> r,
                         result |-> IF res.status = "ok" THEN Len(res.h.regions) ELSE 0,
                         status |-> res.status]
    /\ UNCHANGED <<fontCall, ctx, painted, gvars>>

RegionNext ==
    \/ NewRegion
    \/ SetColorStyle
    \/ SetColorStyleNoArgs
    \/ SetText
    \/ SetContent
    \/ Clone

RegionInit == GroupIdle /\ TextIdle

SpecRegion == RegionInit /\ [][RegionNext]_vars

\* The font style a region's setFontStyle writes to.
FontInit ==
    /\ GroupIdle
    /\ \E impl \in {ImplA, ImplP} :
         LET h == Construct([regions |-> <<>>, payloads |-> [q \in PayloadIds |-> FreePayload]],
                            impl, "segments", TRUE, NoDesc)
         IN  /\ regions = h.regions
             /\ payloads = h.payloads
    /\ shadow = <<Some(<<>>)>>
    /\ call = NoCall
    /\ fontCall = Undefined
    /\ ctx = CtxInit
    /\ painted = Undefined

\* region.setFontStyle(fontSize, leading, fontFamily)
SetFontStyle ==
    /\ \E fontSize \in FontSizes, leading \in LeadingArgs, fontFamily \in FamilyArgs :
         /\ Install(IF regions[1].impl = ImplA
                    THEN setFontStyle(Heap, 1, fontSize, leading, fontFamily)
                    ELSE Part0_setFontStyle(Heap, 1,
                            Some([fontSize |-> fontSize, leading |-> leading,
                                  fontFamily |-> fontFamily])))
         /\ fontCall' = Some([fontSize |-> fontSize, leading |-> leading,
                              fontFamily |-> fontFamily,
                              fontBefore |-> StyleOf(Heap, 1).font])
    /\ call' = [op |-> "setFontStyle", r |-> 1, result |-> 0, status |-> "ok"]
    /\ UNCHANGED <<shadow, ctx, painted, gvars>>

FontNext == SetFontStyle

SpecFont == FontInit /\ [][FontNext]_vars

\* The contents a draw is tried on: every content of up to MaxChars
\* characters, and some longer ones.
RECURSIVE StringsUpTo(_)
StringsUpTo(n) ==
    IF n = 0 THEN {<<>>}
    ELSE LET shorter == StringsUpTo(n - 1)
         IN  shorter \cup {Append(t, c) : t \in shorter, c \in Alphabet \cup {NL}}

LongContents ==
    { <<"a", "a", "a", "a", "a">>,
      <<"a", "a", "a", "a", " ", "a">>,
      <<"M", " ", "a", " ", "a">>,
      <<"a", " ", "a", " ", "a", "\n", "a">> }

BoxWidths == {0, 1, 2, 3}
BoxHeights == {0, 2, 3}
Leadings == {0, 1, 2}

\* One region with a box and a style, about to be drawn; a region of
\* AreaText.js may be without a text.
DrawInit ==
    /\ GroupIdle
    /\ \E impl \in {ImplA, ImplP}, hasText \in BOOLEAN,
          content \in StringsUpTo(MaxChars) \cup LongContents,
          w \in BoxWidths, h \in BoxHeights, leading \in Leadings,
          fill \in FillColors, stroke \in StrokeColors :
         LET style == [DefaultStyle EXCEPT !.fontSize = [n |-> 10, unit |-> "px"],
                                           !.leading = Some(leading),
                                           !.fillColor = fill,
                                           !.strokeColor = stroke]
         IN  /\ ~hasText => (impl = ImplA /\ content = <<>>)
             /\ regions = <<[BareRegion(impl) EXCEPT
                                !.text = IF hasText THEN Some(1) ELSE Undefined,
                                !.bounds = [x |-> 3, y |-> 4, width |-> w, height |-> h],
                                !.style = IF impl = ImplA THEN style ELSE DefaultStyle,
                                !.cssFillColor = fill,
                                !.cssStrokeColor = fill]>>
             /\ payloads = [q \in PayloadIds |->
                              IF q = 1 /\ hasText
                              THEN [live |-> TRUE, content |-> content,
                                    style |-> IF impl = ImplP THEN style ELSE DefaultStyle]
                              ELSE FreePayload]
             /\ shadow = <<IF hasText THEN Some(content) ELSE Undefined>>
    /\ call = NoCall
    /\ fontCall = Undefined
    /\ ctx = CtxInit
    /\ painted = Undefined

\* region._draw(ctx)
TextDraw ==
    /\ painted = Undefined
    /\ LET res == AreaTextDraw(Heap, 1, ctx)
       IN  /\ painted' = Some([status |-> res.status, log |-> res.log,
                               cursor |-> res.cursor, ctxBefore |-> ctx])
           /\ ctx' = res.ctx
           /\ call' = [op |-> "draw", r |-> 1, result |-> 0,
                       status |-> IF res.status = "RangeError" THEN "RangeError" ELSE "ok"]
    /\ UNCHANGED <<regions, payloads, shadow, fontCall, gvars>>

TextNext == TextDraw

SpecText == DrawInit /\ [][TextNext]_vars

GroupSceneInit == GroupInit /\ TextIdle

SpecGroup == GroupSceneInit /\ [][GroupNext]_vars

(***************************************************************************)
(* Properties of Group                                                     *)
(***************************************************************************)

\* The children of the drawn list by their flags.
Masks == {i \in 1..Len(children) : children[i].clipMask}
NonClippable == {i \in 1..Len(children) : ~children[i].clippable}
Deferrable == NonClippable \ Masks
Degenerate(b) == b.width = 0 \/ b.height = 0

\* Children of set S come after children of set T in the log, and the
\* children of S keep their list order.
AfterAndOrdered(log, S, T) ==
    \A p, q \in 1..Len(log) :
        /\ (log[p].child \in S /\ log[q].child \in T /\ log[p].child # log[q].child)
              => q < p
        /\ (log[p].child \in S /\ log[q].child \in S /\ p < q)
              => log[p].child < log[q].child

\* Every child of set S is in the log of a pass that was not aborted.
AllDrawn(log, S) == \A i \in S : \E p \in 1..Len(log) : log[p].child = i

\* C1 as stated: in one draw pass every non-clippable child (whatever its
\* clip-mask flag) is drawn after every other clip-mask child, and the
\* non-clippable children keep their list order.
C1_Original ==
    (frame # Undefined /\ ~Value(frame).aborted) =>
        AfterAndOrdered(Value(frame).log, NonClippable, Masks)

\* C1 amended: in one draw pass every non-clippable child that is not itself
\* a clip mask is drawn, after every clip-mask child, and these children keep
\* their list order.
C1_DeferredAfterMasks ==
    (frame # Undefined /\ ~Value(frame).aborted) =>
        /\ AfterAndOrdered(Value(frame).log, Deferrable, Masks)
        /\ AllDrawn(Value(frame).log, Deferrable \cup Masks)

\* A pass over (non-clippable, clip mask, non-clippable) drew the mask first
\* and then the two others in list order.
C1_Witness ==
    /\ frame # Undefined
    /\ ~Value(frame).aborted
    /\ Len(children) = 3
    /\ Deferrable = {1, 3}
    /\ Masks = {2}
    /\ Len(Value(frame).log) = 3
    /\ [k \in 1..3 |-> Value(frame).log[k].child] = <<2, 1, 3>>

\* C3 as stated: a draw with degenerate stroke bounds draws no child.
C3_Original ==
    (frame # Undefined /\ Degenerate(Value(frame).bounds)) => Value(frame).log = <<>>

\* C3 amended: a draw with degenerate stroke bounds returns without drawing
\* a child when the group has a clip-mask child or no child at all.
C3_DegenerateClippedDrawsNothing ==
    (frame # Undefined /\ Degenerate(Value(frame).bounds)
        /\ (Masks # {} \/ children = <<>>))
      => (Value(frame).log = <<>> /\ paramOffset = Value(frame).offsetIn /\ ctxOp = Value(frame).opIn)

\* A clipped group of two children with degenerate bounds was drawn and
\* nothing was painted.
C3_Witness ==
    /\ frame # Undefined
    /\ Degenerate(Value(frame).bounds)
    /\ Len(children) = 2
    /\ Masks = {2}
    /\ Value(frame).aborted
    /\ Value(frame).log = <<>>

\* C7: the answer of isClipped() is TRUE exactly when a child has its
\* clip-mask flag set, and the list it computed holds exactly those children.
C7_IsClippedIffMask ==
    clipped # Undefined =>
        /\ Value(clipped) = (\E i \in 1..Len(children) : children[i].clipMask)
        /\ clipItems # Undefined
        /\ {Value(clipItems)[k] : k \in 1..Len(Value(clipItems))} = Masks

\* isClipped() answered TRUE for a group whose only clip mask is its last child.
C7_Witness ==
    /\ clipped = Some(TRUE)
    /\ Len(children) = 3
    /\ Masks = {3}

(***************************************************************************)
(* Properties of AreaText: style setters and clone                         *)
(***************************************************************************)

\* C2: after setColorStyle the cached fill color is the canonical fill color
\* and the cached stroke color is the canonical stroke color.
C2_Original ==
    call.op = "setColorStyle" =>
        /\ regions[call.r].cssFillColor = StyleOf(Heap, call.r).fillColor
        /\ regions[call.r].cssStrokeColor = StyleOf(Heap, call.r).strokeColor

\* What setColorStyle does keep equal: the cached and the canonical fill color.
FillCacheInSync ==
    call.op = "setColorStyle" =>
        regions[call.r].cssFillColor = StyleOf(Heap, call.r).fillColor

\* C8: setFontStyle stores a supplied leading as it is (0 included), stores
\* fontSize * 1.2 when none is supplied, and keeps the font family when the
\* supplied family is empty or missing.
C8_Original ==
    fontCall # Undefined =>
        LET a == Value(fontCall)
            style == StyleOf(Heap, 1)
        IN  /\ a.leading # Undefined => style.leading = a.leading
            /\ a.leading = Undefined => style.leading = Some(Times12(a.fontSize))
            /\ ~Truthy(a.fontFamily) => style.font = a.fontBefore

\* What setFontStyle does do: a supplied leading other than 0 is stored as it
\* is, a missing leading or 0 becomes fontSize * 1.2, an empty or missing
\* family leaves the font alone and any other family is stored.
FontStyleAsCoded ==
    fontCall # Undefined =>
        LET a == Value(fontCall)
            style == StyleOf(Heap, 1)
        IN  /\ TruthyNumber(a.leading) => style.leading = a.leading
            /\ ~TruthyNumber(a.leading) => style.leading = Some(Times12(a.fontSize))
            /\ style.fontSize = [n |-> a.fontSize, unit |-> "px"]
            /\ style.font = IF Truthy(a.fontFamily) THEN a.fontFamily ELSE a.fontBefore

\* The clone the last call returned has a text object of its own with the
\* original's content, and the original's cached colors.
CloneIsCopy ==
    LET o == regions[call.r]
        c == regions[call.result]
    IN  /\ o.text # Undefined
        /\ c.text # Undefined
        /\ c.text # o.text
        /\ payloads[Value(c.text)].content = payloads[Value(o.text)].content
        /\ c.cssFillColor = o.cssFillColor
        /\ c.cssStrokeColor = o.cssStrokeColor

\* A content given to the text of one region does not show in another: every
\* region's text holds what was last written through that region.
TextsIndependent ==
    \A r \in 1..Len(regions) : ContentOf(Heap, r) = shadow[r]

\* C10: clone() yields a region whose text is a distinct copy of the
\* original's text, so that writing to one leaves the other alone, and whose
\* cached colors are the original's.
C10_Original ==
    /\ call.op = "clone" => (call.status = "ok" /\ CloneIsCopy)
    /\ TextsIndependent

\* What clone() does do: cloning a region that has a text yields such a copy.
CloneOfRegionWithText ==
    /\ (call.op = "clone" /\ call.status = "ok") => CloneIsCopy
    /\ (call.op = "clone" /\ call.status # "ok") => regions[call.r].text = Undefined
    /\ TextsIndependent

(***************************************************************************)
(* Properties of AreaText._draw                                            *)
(***************************************************************************)

\* The box, the leading and the logical lines of the region that was drawn.
BoxWidth == regions[1].bounds.width
BoxHeight == regions[1].bounds.height
DrawLeading == getLeading(StyleOf(Heap, 1))
DrawnLines == Lines(payloads[1].content)
DrawLog == Value(painted).log

\* The texts handed to writeLine for logical line i, in order.
Emitted(i) ==
    LET sel == SelectSeq(DrawLog, LAMBDA e : e.lineNo = i)
    IN  [k \in 1..Len(sel) |-> sel[k].text]

\* C4: once writeLine drops a line because cursor + leading exceeds the box
\* height, every later line is dropped too, of this and of later logical
\* lines, and the cursor keeps its value to the end of the draw; the painted
\* lines are a prefix of the written ones.
C4_OverflowSticky ==
    painted # Undefined =>
        \A i \in 1..Len(DrawLog) :
            /\ DrawLog[i].painted <=> (DrawLog[i].cursor + DrawLeading <= BoxHeight)
            /\ ~DrawLog[i].painted =>
                 /\ Value(painted).cursor = DrawLog[i].cursor
                 /\ \A j \in (i + 1)..Len(DrawLog) :
                      ~DrawLog[j].painted /\ DrawLog[j].cursor = DrawLog[i].cursor

\* A draw painted a line, then dropped a line of the first logical line and
\* a line of the second one.
C4_Witness ==
    /\ painted # Undefined
    /\ Value(painted).status = "done"
    /\ Len(DrawLog) >= 3
    /\ DrawLog[1].painted
    /\ \E i, j \in 1..Len(DrawLog) :
         /\ i < j
         /\ ~DrawLog[i].painted /\ DrawLog[i].lineNo = 1
         /\ ~DrawLog[j].painted /\ DrawLog[j].lineNo = 2

\* Every word of every logical line fits in the box width.
WordsFit ==
    \A i \in 1..Len(DrawnLines) :
        LET words == Split(DrawnLines[i], " ")
        IN  \A n \in 1..Len(words) : measureText(words[n]) <= BoxWidth

\* C5: when every word fits in the box width, the lines written for a
\* logical line, joined by single spaces, are that logical line (no word is
\* lost, repeated or moved), the first word of each following line is the
\* word that did not fit on the line before, and with enough height every
\* written line is painted.
C5_WrapKeepsWords ==
    (painted # Undefined /\ Value(painted).status # "noop" /\ WordsFit) =>
        /\ Value(painted).status = "done"
        /\ \A i \in 1..Len(DrawnLines) :
             /\ Join(Emitted(i), <<" ">>) = DrawnLines[i]
             /\ \A k \in 1..(Len(Emitted(i)) - 1) :
                  measureText(Join(<<Emitted(i)[k], Split(Emitted(i)[k + 1], " ")[1]>>,
                                   <<" ">>)) > BoxWidth
        /\ (DrawLeading * Len(DrawLog) <= BoxHeight) =>
             \A k \in 1..Len(DrawLog) : DrawLog[k].painted

\* "M a a" in a box where "M a" is too wide and "a a" fits was written and
\* painted as "M" and "a a".
C5_Witness ==
    /\ painted # Undefined
    /\ payloads[1].content = <<"M", " ", "a", " ", "a">>
    /\ BoxWidth = 3
    /\ Len(DrawLog) = 2
    /\ DrawLog[1].text = <<"M">> /\ DrawLog[1].painted
    /\ DrawLog[2].text = <<"a", " ", "a">> /\ DrawLog[2].painted

\* The word w was written for logical line i as two or more fragments, each
\* a line of its own, that make up w when put together.
HardBroken(i, w) ==
    \E a, b \in 1..Len(Emitted(i)) :
        /\ a < b
        /\ Join([k \in 1..(b - a + 1) |-> Emitted(i)[a + k - 1]], <<>>) = w
        /\ \A k \in a..b : Emitted(i)[k] # <<>>

\* Every word wider than the box was hard-broken.
WideWordsHardBroken ==
    \A i \in 1..Len(DrawnLines) :
        LET words == Split(DrawnLines[i], " ")
        IN  \A n \in 1..Len(words) :
                measureText(words[n]) > BoxWidth => HardBroken(i, words[n])

\* C6: a word wider than the box on its own is written as fragments, in
\* order, each a line of its own, that make up the word, the last fragment
\* without the word that follows.
C6_Original ==
    (painted # Undefined /\ Value(painted).status # "noop") => WideWordsHardBroken

\* What testLine does do: the same, when every character of the content fits
\* in the box width.
HardBreakWhenCharsFit ==
    (painted # Undefined /\ Value(painted).status # "noop"
        /\ \A k \in 1..Len(payloads[1].content) :
              payloads[1].content[k] = NL \/ CharWidth(payloads[1].content[k]) <= BoxWidth)
      => (Value(painted).status = "done" /\ WideWordsHardBroken)

\* C9: a draw runs to completion for every content and every box.
C9_Original ==
    painted # Undefined => Value(painted).status \in {"noop", "done"}

\* What _draw does do: it completes when every character fits in the box
\* width, and overflows the call stack when one does not fit and is reached.
DrawCompletesWhenCharsFit ==
    (painted # Undefined
        /\ \A k \in 1..Len(payloads[1].content) :
              payloads[1].content[k] = NL \/ CharWidth(payloads[1].content[k]) <= BoxWidth)
      => Value(painted).status \in {"noop", "done"}

(***************************************************************************)
(* Properties of AreaText: construction                                    *)
(***************************************************************************)

\* C11: every region has a text once its constructor has returned, whatever
\* the form of the constructor's arguments.
C11_Original ==
    \A r \in 1..Len(regions) : regions[r].text # Undefined

\* What the constructors do do: a region of part_000 always has a text, and
\* the text of a region is an object that exists.
ConstructedTextAsCoded ==
    \A r \in 1..Len(regions) :
        /\ regions[r].impl = ImplP => regions[r].text # Undefined
        /\ regions[r].text # Undefined => payloads[Value(regions[r].text)].live

(***************************************************************************)
(* Properties of Group._draw: operator, offset, coverage                   *)
(***************************************************************************)

\* The children the log of the last pass names, in the order they were drawn.
DrawOrder == [k \in 1..Len(Value(frame).log) |-> Value(frame).log[k].child]

\* C12: in a draw pass the group's operator is active exactly while a clip
\* mask is drawn, every other child, drawn at once or deferred, is drawn
\* with the operator that was active when the pass was entered, and when
\* the pass returns the surface has that operator again.
C12_OperatorScoped ==
    frame # Undefined =>
        /\ \A k \in 1..Len(Value(frame).log) :
             LET e == Value(frame).log[k]
             IN  /\ e.child \in Masks => e.op = Compositing
                 /\ e.child \notin Masks => e.op = Value(frame).opIn
        /\ ctxOp = Value(frame).opIn

\* A pass entered with 'destination-out' drew a clip mask with 'source-in'
\* and then an ordinary and a deferred child with 'destination-out'.
C12_Witness ==
    /\ frame # Undefined
    /\ Value(frame).opIn = "destination-out"
    /\ Len(children) = 3
    /\ Masks = {1}
    /\ Deferrable = {2}
    /\ DrawOrder = <<1, 3, 2>>
    /\ [k \in 1..3 |-> Value(frame).log[k].op]
         = <<"source-in", "destination-out", "destination-out">>
    /\ ctxOp = "destination-out"

\* C13: a draw pass writes the floored top-left corner of the stroke bounds
\* to param.offset exactly when the group has a clip mask and the bounds
\* have a width and a height; with a clip mask and degenerate bounds it
\* returns with param.offset as it was and no child drawn; without a clip
\* mask param.offset is as it was.
C13_OffsetWrittenIffClipped ==
    frame # Undefined =>
        LET f == Value(frame)
        IN  /\ (Masks # {} /\ ~Degenerate(f.bounds)) =>
                 /\ paramOffset = Some(<<Floor2(f.bounds.x2), Floor2(f.bounds.y2)>>)
                 /\ ~f.aborted
            /\ (Masks # {} /\ Degenerate(f.bounds)) =>
                 /\ paramOffset = f.offsetIn
                 /\ f.aborted
                 /\ f.log = <<>>
            /\ Masks = {} =>
                 /\ paramOffset = f.offsetIn
                 /\ ~f.aborted

\* A clipped group with bounds from (-1.5, 0.5) was drawn when param.offset
\* held (2, 0) from an earlier pass, and param.offset is now (-2, 0).
C13_Witness ==
    /\ frame # Undefined
    /\ Masks # {}
    /\ ~Degenerate(Value(frame).bounds)
    /\ Value(frame).bounds.x2 = -3
    /\ Value(frame).offsetIn = Some(<<2, 0>>)
    /\ paramOffset = Some(<<-2, 0>>)

\* C15: in a draw pass that is not aborted every child is drawn exactly
\* once, in the main pass or in the deferred pass, and without a clip mask
\* the children are drawn in list order whatever their clippable flags are.
C15_EachChildOnce ==
    (frame # Undefined /\ ~Value(frame).aborted) =>
        /\ Len(Value(frame).log) = Len(children)
        /\ \A i \in 1..Len(children) :
             Cardinality({k \in 1..Len(Value(frame).log) : DrawOrder[k] = i}) = 1
        /\ \A k \in 1..Len(Value(frame).log) :
             Value(frame).log[k].pass = "deferred" <=> DrawOrder[k] \in Deferrable /\ Masks # {}
        /\ Masks = {} => DrawOrder = [k \in 1..Len(children) |-> k]

\* A group without a clip mask whose three children are (non-clippable,
\* clippable, non-clippable) was drawn in list order, all in the main pass.
C15_Witness ==
    /\ frame # Undefined
    /\ ~Value(frame).aborted
    /\ Len(children) = 3
    /\ Masks = {}
    /\ NonClippable = {1, 3}
    /\ DrawOrder = <<1, 2, 3>>
    /\ \A k \in 1..3 : Value(frame).log[k].pass = "main"

(***************************************************************************)
(* Properties of AreaText._draw: early exits, line widths, cursor          *)
(***************************************************************************)

\* The region that was drawn has no text, or a text without content, or a
\* box without width or height.
NothingToDraw ==
    \/ regions[1].text = Undefined
    \/ payloads[Value(regions[1].text)].content = <<>>
    \/ BoxWidth = 0
    \/ BoxHeight = 0

\* C14: a draw of a region without a text, with an empty content, or with a
\* box of zero width or height writes no line, leaves font, alignment and
\* origin of the surface as they were, and raises no error; any other draw
\* does set up the surface.
C14_NoopDraw ==
    painted # Undefined =>
        /\ NothingToDraw =>
             /\ Value(painted).status = "noop"
             /\ DrawLog = <<>>
             /\ ctx = Value(painted).ctxBefore
        /\ ~NothingToDraw =>
             /\ Value(painted).status # "noop"
             /\ ctx.textAlign = "left"
             /\ ctx.x = Value(painted).ctxBefore.x + regions[1].bounds.x + 1

\* A region with the content "a" and a box of width 0 and height 2 was
\* drawn: nothing was written and the surface is as it was.
C14_Witness ==
    /\ painted # Undefined
    /\ regions[1].text # Undefined
    /\ payloads[1].content = <<"a">>
    /\ BoxWidth = 0
    /\ BoxHeight = 2
    /\ Value(painted).status = "noop"
    /\ DrawLog = <<>>
    /\ ctx = CtxInit

\* Every character of the content fits in the box width.
CharsFit ==
    \A k \in 1..Len(payloads[1].content) :
        payloads[1].content[k] = NL \/ CharWidth(payloads[1].content[k]) <= BoxWidth

\* C16: when every character of the content fits in the box width, every
\* line the draw writes, painted or dropped, measures at most the box width.
C16_LinesFit ==
    (painted # Undefined /\ CharsFit) =>
        \A k \in 1..Len(DrawLog) : measureText(DrawLog[k].text) <= BoxWidth

\* "aa a" in a box of width 2 was painted as "aa" (as wide as the box) and "a".
C16_Witness ==
    /\ painted # Undefined
    /\ Value(painted).status = "done"
    /\ payloads[1].content = <<"a", "a", " ", "a">>
    /\ BoxWidth = 2
    /\ Len(DrawLog) = 2
    /\ DrawLog[1].text = <<"a", "a">> /\ DrawLog[1].painted
    /\ DrawLog[2].text = <<"a">> /\ DrawLog[2].painted
    /\ measureText(DrawLog[1].text) = BoxWidth

\* The number of lines among the first n written ones that were not dropped.
PaintedAmong(n) == Cardinality({j \in 1..n : DrawLog[j].painted})

\* How far the origin of the surface is below the first baseline.
OriginBelowBaseline ==
    ctx.y - (Value(painted).ctxBefore.y + regions[1].bounds.y
               + StyleOf(Heap, 1).fontSize.n - 1)

\* C17: in a draw with a positive leading the cursor is, at every call of
\* writeLine and at the end, the leading times the number of lines painted
\* so far and at most the box height, the origin of the surface is that far
\* below the first baseline, and a line without fill and stroke color
\* advances the cursor like any other.
C17_CursorCountsLines ==
    (painted # Undefined /\ Value(painted).status # "noop" /\ DrawLeading > 0) =>
        /\ \A k \in 1..Len(DrawLog) :
             /\ DrawLog[k].cursor = DrawLeading * PaintedAmong(k - 1)
             /\ DrawLog[k].cursor <= BoxHeight
        /\ Value(painted).cursor = DrawLeading * PaintedAmong(Len(DrawLog))
        /\ Value(painted).cursor <= BoxHeight
        /\ OriginBelowBaseline = Value(painted).cursor

\* A text without fill and stroke color was drawn with leading 1 in a box of
\* height 3: three lines were counted, a fourth was dropped, and the cursor
\* and the origin are 3 below the start.
C17_Witness ==
    /\ painted # Undefined
    /\ Value(painted).status = "done"
    /\ DrawLeading = 1
    /\ BoxHeight = 3
    /\ StyleOf(Heap, 1).fillColor = Undefined
    /\ StyleOf(Heap, 1).strokeColor = Undefined
    /\ Len(DrawLog) = 4
    /\ PaintedAmong(4) = 3
    /\ ~DrawLog[4].painted
    /\ \A k \in 1..3 : ~DrawLog[k].fill /\ ~DrawLog[k].stroke
    /\ Value(painted).cursor = 3
    /\ OriginBelowBaseline = 3

====
